---- MODULE Spec2Model ----
(***************************************************************************)
(* Model of src/index.js: the Accept-Encoding negotiator (parseEncoding),  *)
(* the static responder returned by buildDefaultStaticHandler and the      *)
(* dynamic bridge onRequest returned by buildRequestHandler.               *)
(*                                                                         *)
(* Weights are integers in thousandths (q=0.5 is 500, q=1 is 1000).         *)
(* A header value is a comma separated list of tokens; a token is a coding *)
(* name optionally followed by ";q=" and a run of characters.              *)
(***************************************************************************)
EXTENDS Integers, Sequences, FiniteSets, TLC

\* ------------------------------------------------------------------------
\* Bounds
\* ------------------------------------------------------------------------
\* tokens in the header handed to parseEncoding on its own
MaxTokens == 2

\* tokens in the accept-encoding header of an exchange
MaxReqTokens == 2

\* chunks in a file or in a response body
MaxChunks == 1

\* ------------------------------------------------------------------------
\* Header values
\* ------------------------------------------------------------------------
\* the characters after ";q=" that the inputs use
QTexts ==
  { <<"0">>, <<"0", ".">>, <<"0", ".", "0", "0", "0">>,
    <<"0", ".", "5">>, <<"0", ".", "9">>,
    <<"1">>, <<"1", ".", "5">>,
    <<"2">> }

HeaderCodings == {"*", "br", "zstd", "gzip", "deflate", "identity", "foo"}

Tok(c, q) == [encoding |-> c, hasQ |-> TRUE, q |-> q]

Bare(c) == [encoding |-> c, hasQ |-> FALSE, q |-> <<>>]

Tokens == {Bare(c) : c \in HeaderCodings}
          \cup {Tok(c, q) : c \in HeaderCodings, q \in QTexts}

SeqsUpTo(S, n) == UNION {[1..k -> S] : k \in 0..n}

Headers == SeqsUpTo(Tokens, MaxTokens)

\* ------------------------------------------------------------------------
\* parseEncoding
\* ------------------------------------------------------------------------
preferredEncodingOrder ==
  <<"*", "br", "zstd", "gzip", "deflate", "compress", "identity">>

\* Array.prototype.indexOf: 0-based position, -1 when absent
IndexOf(list, x) ==
  IF \E i \in 1..Len(list) : list[i] = x
  THEN (CHOOSE i \in 1..Len(list) :
          list[i] = x /\ \A j \in 1..(i - 1) : list[j] # x) - 1
  ELSE -1

Digits == {"0", "1", "2", "3", "4", "5", "6", "7", "8", "9"}

DigitVal ==
  "0" :> 0 @@ "1" :> 1 @@ "2" :> 2 @@ "3" :> 3 @@ "4" :> 4 @@
  "5" :> 5 @@ "6" :> 6 @@ "7" :> 7 @@ "8" :> 8 @@ "9" :> 9

\* the value of the `weight` group when the group did not take part
Undefined == <<"undefined">>

NaN == -1

\* number of leading digits of t, at most n
RECURSIVE DigitRun(_, _)
DigitRun(t, n) ==
  IF n = 0 \/ t = <<>> \/ Head(t) \notin Digits
  THEN 0
  ELSE 1 + DigitRun(Tail(t), n - 1)

\* length of the prefix of t that (0|1)(\.\d{0,3})? takes, 0 when it fails
WeightPrefixLen(t) ==
  IF t = <<>> \/ Head(t) \notin {"0", "1"}
  THEN 0
  ELSE IF Len(t) >= 2 /\ t[2] = "."
       THEN 2 + DigitRun(SubSeq(t, 3, Len(t)), 3)
       ELSE 1

\* the maximal \w+ runs of t, as matches that carry no weight
RECURSIVE WordMatches(_, _)
WordMatches(t, cur) ==
  IF t = <<>>
  THEN IF cur = <<>> THEN <<>>
       ELSE <<[encoding |-> cur, weight |-> Undefined]>>
  ELSE IF Head(t) \in Digits
       THEN WordMatches(Tail(t), Append(cur, Head(t)))
       ELSE (IF cur = <<>> THEN <<>>
             ELSE <<[encoding |-> cur, weight |-> Undefined]>>)
            \o WordMatches(Tail(t), <<>>)

\* the matches encodingRegex finds in one token of the header
TokenMatches(tok) ==
  IF ~tok.hasQ
  THEN <<[encoding |-> tok.encoding, weight |-> Undefined]>>
  ELSE LET n == WeightPrefixLen(tok.q) IN
       IF n = 0
       THEN <<[encoding |-> tok.encoding, weight |-> Undefined],
              [encoding |-> "q", weight |-> Undefined]>>
            \o WordMatches(tok.q, <<>>)
       ELSE <<[encoding |-> tok.encoding, weight |-> SubSeq(tok.q, 1, n)]>>
            \o WordMatches(SubSeq(tok.q, n + 1, Len(tok.q)), <<>>)

\* encoding.matchAll(encodingRegex)
RECURSIVE MatchAll(_)
MatchAll(h) ==
  IF h = <<>> THEN <<>> ELSE TokenMatches(Head(h)) \o MatchAll(Tail(h))

\* value in thousandths of up to three fraction digits
RECURSIVE FracVal(_, _)
FracVal(t, scale) ==
  IF t = <<>> \/ scale = 0
  THEN 0
  ELSE DigitVal[Head(t)] * scale + FracVal(Tail(t), scale \div 10)

\* Number(text), in thousandths
Number(t) ==
  IF t = <<>> \/ Head(t) \notin Digits
  THEN NaN
  ELSE IF Len(t) = 1
       THEN DigitVal[t[1]] * 1000
       ELSE IF t[2] = "."
            THEN DigitVal[t[1]] * 1000 + FracVal(SubSeq(t, 3, Len(t)), 100)
            ELSE NaN

\* Number(match.groups["weight"] ?? 0)
MatchWeight(m) == IF m.weight = Undefined THEN 0 ELSE Number(m.weight)

\* if (weight != 0)
KeepDropNothing(weight) == TRUE

Keep(weight) == weight # 0

\* the loop that fills `encodings`
RECURSIVE Collect(_)
Collect(ms) ==
  IF ms = <<>>
  THEN <<>>
  ELSE LET weight == MatchWeight(Head(ms)) IN
       (IF Keep(weight)
        THEN <<[encoding |-> Head(ms).encoding,
                weight |-> IF weight = NaN THEN 1000 ELSE weight]>>
        ELSE <<>>)
       \o Collect(Tail(ms))

\* the comparator handed to encodings.sort
CompareNoTie(a, b) == a.weight - b.weight

Compare(a, b) ==
  IF a.weight = b.weight
  THEN IndexOf(preferredEncodingOrder, a.encoding)
       - IndexOf(preferredEncodingOrder, b.encoding)
  ELSE a.weight - b.weight

\* stable insertion of e into the sorted sequence s
RECURSIVE Insert(_, _)
Insert(e, s) ==
  IF s = <<>>
  THEN <<e>>
  ELSE IF Compare(Head(s), e) <= 0
       THEN <<Head(s)>> \o Insert(e, Tail(s))
       ELSE <<e>> \o s

\* Array.prototype.sort (stable)
RECURSIVE Sort(_)
Sort(s) ==
  IF s = <<>> THEN <<>>
  ELSE Insert(s[Len(s)], Sort(SubSeq(s, 1, Len(s) - 1)))

parseEncoding(h) == Sort(Collect(MatchAll(h)))

\* ------------------------------------------------------------------------
\* Paths, the static index and the build descriptor
\* ------------------------------------------------------------------------
\* "/dir/base.e1.e2" is [dir |-> "dir", base |-> "base", exts |-> <<"e1","e2">>]
Path(dir, base, exts) == [dir |-> dir, base |-> base, exts |-> exts]

AppJs == Path("build", "app", <<"js">>)

Favicon == Path("", "favicon", <<"ico">>)

ApiData == Path("api", "data", <<>>)

\* `${pathname}.${extension}`
WithExtension(p, ext) == [p EXCEPT !.exts = Append(@, ext)]

Logo == Path("img", "logo", <<"png">>)

\* the regular files below the public directory
PublicFiles ==
  { AppJs, WithExtension(AppJs, "br"), WithExtension(AppJs, "gz"),
    Favicon, WithExtension(Favicon, "gz"), Logo }

\* the directories below the public directory, "" being the root itself
Dirs == {"", "build", "img"}

\* entries of d for which entry.isDirectory() holds
SubdirsOf(d) == IF d = "" THEN {"build", "img"} ELSE {}

\* entries of d for which entry.isFile() holds
FilesOf(d) == {f \in PublicFiles : f.dir = d}

\* entries of d that are neither (a symbolic link)
OthersOf(d) == IF d = "" THEN {"latest"} ELSE {}

\* Promise.race in place of Promise.all
PromiseRace(statuses) ==
  IF "failed" \in statuses THEN "rejected" ELSE "fulfilled"

\* Promise.allSettled in place of Promise.all
PromiseAllSettled(statuses) ==
  IF statuses \subseteq {"done", "failed"} THEN "fulfilled" ELSE "pending"

\* Promise.all over the sub-walks, given the states they are in
PromiseAll(statuses) ==
  IF "failed" \in statuses
  THEN "rejected"
  ELSE IF statuses \subseteq {"done"} THEN "fulfilled" ELSE "pending"

\* path.resolve(dir.path, entry.name)
AbsolutePath(p) == [root |-> "public", rel |-> p]

\* the map buildStaticFiles leaves behind: one entry per regular file
BuiltStaticMap == [p \in PublicFiles |-> AbsolutePath(p)]

\* pathname.startsWith(build.publicPath), build.publicPath being "/build/"
UnderPublicPath(p) == p.dir = "build"

encodingExtensionMap ==
  "br" :> "br" @@ "zstd" :> "zst" @@ "gzip" :> "gz" @@ "deflate" :> "gz"
  @@ "compress" :> "Z"

\* the part of mime-db the indexed files need
extensionMap ==
  "js" :> "application/javascript" @@ "ico" :> "image/x-icon"
  @@ "gz" :> "application/gzip"

\* path.extname(pathname).slice(1)
ExtName(p) == IF p.exts = <<>> THEN "" ELSE p.exts[Len(p.exts)]

ContentType(p) ==
  IF ExtName(p) \in DOMAIN extensionMap
  THEN extensionMap[ExtName(p)]
  ELSE "application/octet-stream"

CacheValueAlwaysImmutable(p) == "public, max-age=31536000, immutable"

CacheValue(p) ==
  IF UnderPublicPath(p)
  THEN "public, max-age=31536000, immutable"
  ELSE "public, max-age=21600"

\* a request without an accept-encoding header
NoHeader == [present |-> FALSE, value |-> <<>>]

Hdr(h) == [present |-> TRUE, value |-> h]

\* request.headers["accept-encoding"] ?? "*"
AcceptEncoding(h) == IF h.present THEN h.value ELSE <<Bare("*")>>

\* the best sibling on disk, whatever the request accepts
ResolveAnySibling(map, p, encs) ==
  IF WithExtension(p, "br") \in DOMAIN map
  THEN [filePath |-> map[WithExtension(p, "br")], encoding |-> "br"]
  ELSE IF WithExtension(p, "gz") \in DOMAIN map
       THEN [filePath |-> map[WithExtension(p, "gz")], encoding |-> "gzip"]
       ELSE [filePath |-> map[p], encoding |-> "identity"]

\* the scan without the initial `filePath = staticMap.get(pathname)`
RECURSIVE ResolveNoFallback(_, _, _)
ResolveNoFallback(map, p, encs) ==
  IF encs = <<>>
  THEN [filePath |-> [root |-> "none", rel |-> p], encoding |-> "identity"]
  ELSE LET e == Head(encs).encoding IN
       IF e \in DOMAIN encodingExtensionMap
          /\ WithExtension(p, encodingExtensionMap[e]) \in DOMAIN map
       THEN [filePath |-> map[WithExtension(p, encodingExtensionMap[e])],
             encoding |-> e]
       ELSE ResolveNoFallback(map, p, Tail(encs))

\* the scan over the negotiated codings: the first one whose sibling is indexed
RECURSIVE Resolve(_, _, _)
Resolve(map, p, encs) ==
  IF encs = <<>>
  THEN [filePath |-> map[p], encoding |-> "identity"]
  ELSE LET e == Head(encs).encoding IN
       IF e \in DOMAIN encodingExtensionMap
          /\ WithExtension(p, encodingExtensionMap[e]) \in DOMAIN map
       THEN [filePath |-> map[WithExtension(p, encodingExtensionMap[e])],
             encoding |-> e]
       ELSE Resolve(map, p, Tail(encs))

\* the headers the static responder hands to writeHead
StaticHeaders(p, encoding) ==
  "cache-control" :> CacheValue(p) @@ "content-type" :> ContentType(p)
  @@ "content-encoding" :> encoding

\* encodingResult?.encoding ?? "identity"
Negotiated(h) ==
  LET encs == parseEncoding(AcceptEncoding(h)) IN
  IF encs = <<>> THEN "identity" ELSE encs[1].encoding

\* the headers onRequest hands to writeHead: the response's own come last
DynamicHeaders(h, responseHeaders) ==
  responseHeaders
  @@ ("cache-control" :> "no-cache" @@ "content-encoding" :> Negotiated(h))

\* the switch that picks the transform
Compression(encoding) ==
  IF encoding \in {"br", "gzip", "deflate"} THEN encoding ELSE "PassThrough"

\* the body of the Request handed to the application handler
RequestBodyAlwaysStream(method) == "stream"

RequestBody(method) ==
  IF method \in {"GET", "HEAD"} THEN "null" ELSE "stream"

\* serverResponse.writeHead(status, headers), as a log of the calls
WriteHeadSkipped(log, status, headers) == log

WriteHead(log, status, headers) ==
  Append(log, [status |-> status, headers |-> headers])

\* if (response.body)
HasBodyAlways(r) == TRUE

HasBody(r) == r.body # -1

\* the catch block around the file pipeline
StaticCatchRethrowAll(code) == "throw"

StaticCatch(code) == IF code = "ABORT_ERR" THEN "return" ELSE "throw"

\* ------------------------------------------------------------------------
\* State
\* ------------------------------------------------------------------------
VARIABLES
  pHeader,        \* argument of a parseEncoding call made on its own
  pResult,        \* the array it returned
  pDone,          \* the call has returned
  staticMap,      \* the index held by the static handler
  listeners,      \* this.listenerCount("response")
  walk,           \* where each buildStaticFiles call stands
  remaining,      \* the entries each open directory has yet to yield
  subdirs,        \* the `subdirs` array of each call
  staticHandler,  \* how buildDefaultStaticHandler settled
  pc,             \* where onRequest stands
  req,            \* the transport request
  aborted,        \* the transport has emitted "aborted"
  abortedAt,      \* where onRequest stood when it did
  controllers,    \* AbortControllers created for the exchange
  staticSignal,   \* the static handler's controller.signal.aborted
  dynSignal,      \* onRequest's controller.signal.aborted
  written,        \* the writeHead calls, in order
  served,         \* the file handed to createReadStream
  fileLeft,       \* chunks of the file not yet piped
  staticResult,   \* how the static handler settled
  pipelineError,  \* the error the file pipeline rejected with
  thrown,         \* the error onRequest rejected with
  handlerCalls,   \* invocations of the application handler
  handlerBody,    \* the body of the Request handed to the handler
  response,       \* the handler's Response
  compression,    \* the transform piped into the transport
  bodyLeft,       \* chunks of response.body not yet read
  inTransform,    \* chunks written to the transform, not yet piped on
  sent,           \* chunks written to the transport
  transformEnded, \* compression.end() has been called
  transportEnded, \* the transport stream has been ended
  events          \* "response" events emitted

pvars == <<pHeader, pResult, pDone>>

svars == <<staticMap, listeners, walk, remaining, subdirs, staticHandler>>

xvars ==
  <<pc, req, aborted, abortedAt, controllers, staticSignal, dynSignal,
    written, served, fileLeft, staticResult, pipelineError, thrown,
    handlerCalls, handlerBody, response, compression, bodyLeft, inTransform,
    sent, transformEnded, transportEnded, events>>

vars == <<pvars, svars, xvars>>

NoRequest == [path |-> ApiData, method |-> "none", acceptEncoding |-> NoHeader]

NoFile == [root |-> "none", rel |-> ApiData]

NoResponse == [status |-> 0, headers |-> <<>>, body |-> -1]

\* ------------------------------------------------------------------------
\* Inputs
\* ------------------------------------------------------------------------
ReqTokens ==
  { Bare("gzip"), Tok("br", <<"0", ".", "5">>), Tok("gzip", <<"0", ".", "9">>),
    Tok("deflate", <<"0", ".", "5">>), Tok("identity", <<"0", ".", "5">>),
    Tok("zstd", <<"0", ".", "5">>), Tok("foo", <<"0", ".", "5">>),
    Tok("*", <<"0", ".", "5">>) }

ReqHeaders == {NoHeader} \cup {Hdr(h) : h \in SeqsUpTo(ReqTokens, MaxReqTokens)}

ReqPaths == {AppJs, Favicon, ApiData}

ReqMethods == {"GET", "HEAD", "POST"}

\* what the application handler may answer: body -1 is a null body
Responses ==
  { [status |-> 200, headers |-> h, body |-> b] :
      h \in { <<>>, "content-encoding" :> "gzip" },
      b \in {-1} \cup 1..MaxChunks }

\* failures of the file pipeline other than the abort
PipelineFailures == {"EIO"}

\* ------------------------------------------------------------------------
\* Initial states
\* ------------------------------------------------------------------------
IdleParse ==
  /\ pHeader = <<>>
  /\ pResult = <<>>
  /\ pDone = FALSE

IdleExchange ==
  /\ pc = "idle"
  /\ req = NoRequest
  /\ aborted = FALSE
  /\ abortedAt = "none"
  /\ controllers = 0
  /\ staticSignal = FALSE
  /\ dynSignal = FALSE
  /\ written = <<>>
  /\ served = NoFile
  /\ fileLeft = 0
  /\ staticResult = "pending"
  /\ pipelineError = "none"
  /\ thrown = "none"
  /\ handlerCalls = 0
  /\ handlerBody = "none"
  /\ response = NoResponse
  /\ compression = "none"
  /\ bodyLeft = 0
  /\ inTransform = 0
  /\ sent = 0
  /\ transformEnded = FALSE
  /\ transportEnded = FALSE
  /\ events = 0

\* the server after buildDefaultStaticHandler and buildRequestHandler returned
\* the index walk is over and the static handler has been handed out
Built ==
  /\ staticMap = BuiltStaticMap
  /\ walk = [d \in Dirs |-> "done"]
  /\ remaining = [d \in Dirs |-> {}]
  /\ subdirs = [d \in Dirs |-> SubdirsOf(d)]
  /\ staticHandler = "returned"

Init ==
  /\ IdleParse
  /\ Built
  /\ listeners \in {0, 1}
  /\ IdleExchange

InitParse ==
  /\ pHeader \in Headers
  /\ pResult = <<>>
  /\ pDone = FALSE
  /\ Built
  /\ listeners = 0
  /\ IdleExchange

\* buildDefaultStaticHandler has been called and awaits the root opendir
InitBuild ==
  /\ IdleParse
  /\ staticMap = [f \in {} |-> f]
  /\ walk = [d \in Dirs |-> IF d = "" THEN "opening" ELSE "none"]
  /\ remaining = [d \in Dirs |-> {}]
  /\ subdirs = [d \in Dirs |-> {}]
  /\ staticHandler = "pending"
  /\ listeners = 0
  /\ IdleExchange

\* ------------------------------------------------------------------------
\* parseEncoding on its own
\* ------------------------------------------------------------------------
ParseCall ==
  /\ ~pDone
  /\ pResult' = parseEncoding(pHeader)
  /\ pDone' = TRUE
  /\ UNCHANGED <<pHeader, svars, xvars>>

\* ------------------------------------------------------------------------
\* onRequest and the static handler
\* ------------------------------------------------------------------------

\* the static handler finds the path in the index and starts the pipeline
ReceiveStaticHit(p, h, m) ==
  /\ pc = "idle"
  /\ p \in DOMAIN staticMap
  /\ req' = [path |-> p, method |-> m, acceptEncoding |-> h]
  /\ LET r == Resolve(staticMap, p, parseEncoding(AcceptEncoding(h))) IN
       /\ served' = r.filePath
       /\ written' = WriteHead(written, 200, StaticHeaders(p, r.encoding))
  /\ controllers' = controllers + 1
  /\ fileLeft' = MaxChunks
  /\ pc' = "streaming_file"
  /\ UNCHANGED <<pvars, svars, pipelineError, aborted, abortedAt,
                 staticSignal, dynSignal, staticResult, thrown, handlerCalls,
                 handlerBody, response, compression, bodyLeft, inTransform,
                 sent, transformEnded, transportEnded, events>>

\* the static handler returns false and onRequest goes on to the handler
ReceiveStaticMiss(p, h, m) ==
  /\ pc = "idle"
  /\ p \notin DOMAIN staticMap
  /\ req' = [path |-> p, method |-> m, acceptEncoding |-> h]
  /\ staticResult' = "false"
  /\ controllers' = controllers + 2
  /\ handlerCalls' = handlerCalls + 1
  /\ handlerBody' = RequestBody(m)
  /\ pc' = "awaiting_handler"
  /\ UNCHANGED <<pvars, svars, pipelineError, aborted, abortedAt,
                 staticSignal, dynSignal, written, served, fileLeft, thrown,
                 response, compression, bodyLeft, inTransform, sent,
                 transformEnded, transportEnded, events>>

\* a request for an indexed path arrives
ReceiveHit ==
  /\ pc = "idle"
  /\ \E p \in ReqPaths, h \in ReqHeaders, m \in ReqMethods :
       ReceiveStaticHit(p, h, m)

\* a request for any other path arrives
ReceiveMiss ==
  /\ pc = "idle"
  /\ \E p \in ReqPaths, h \in ReqHeaders, m \in ReqMethods :
       ReceiveStaticMiss(p, h, m)

\* the transport emits "aborted": every listener registered so far runs
ClientAbort ==
  /\ pc \in {"streaming_file", "awaiting_handler", "streaming_body"}
  /\ ~aborted
  /\ aborted' = TRUE
  /\ abortedAt' = pc
  /\ staticSignal' = TRUE
  /\ dynSignal' = (pc \in {"awaiting_handler", "streaming_body"})
  /\ UNCHANGED <<pvars, svars, pipelineError, pc, req, controllers, written,
                 served, fileLeft, staticResult, thrown, handlerCalls,
                 handlerBody, response, compression, bodyLeft, inTransform,
                 sent, transformEnded, transportEnded, events>>

\* the pipeline moves one chunk of the file into the transport
FileChunk ==
  /\ pc = "streaming_file"
  /\ ~staticSignal
  /\ fileLeft > 0
  /\ fileLeft' = fileLeft - 1
  /\ sent' = sent + 1
  /\ UNCHANGED <<pvars, svars, pipelineError, pc, req, aborted, abortedAt,
                 controllers, staticSignal, dynSignal, written, served,
                 staticResult, thrown, handlerCalls, handlerBody, response,
                 compression, bodyLeft, inTransform, transformEnded,
                 transportEnded, events>>

\* the pipeline resolves: the static handler returns true, onRequest returns
FileStreamed ==
  /\ pc = "streaming_file"
  /\ ~staticSignal
  /\ fileLeft = 0
  /\ staticResult' = "true"
  /\ transportEnded' = TRUE
  /\ pc' = "done"
  /\ UNCHANGED <<pvars, svars, pipelineError, req, aborted, abortedAt,
                 controllers, staticSignal, dynSignal, written, served,
                 fileLeft, thrown, handlerCalls, handlerBody, response,
                 compression, bodyLeft, inTransform, sent, transformEnded,
                 events>>

\* the pipeline rejects with `code` and the catch block decides
PipelineRejected(code) ==
  /\ pc = "streaming_file"
  /\ pipelineError' = code
  /\ IF StaticCatch(code) = "return"
     THEN /\ staticResult' = "undefined"
          /\ controllers' = controllers + 1
          /\ handlerCalls' = handlerCalls + 1
          /\ handlerBody' = RequestBody(req.method)
          /\ pc' = "awaiting_handler"
          /\ thrown' = thrown
     ELSE /\ staticResult' = "thrown"
          /\ thrown' = code
          /\ pc' = "failed"
          /\ UNCHANGED <<controllers, handlerCalls, handlerBody>>
  /\ UNCHANGED <<pvars, svars, req, aborted, abortedAt, staticSignal,
                 dynSignal, written, served, fileLeft, response, compression,
                 bodyLeft, inTransform, sent, transformEnded, transportEnded,
                 events>>

\* the signal has tripped: the pipeline rejects with the abort error
FileAborted ==
  /\ staticSignal
  /\ PipelineRejected("ABORT_ERR")

\* the read or the write fails
FileFailed(code) ==
  /\ ~staticSignal
  /\ PipelineRejected(code)

\* lines 117-130
Emit == events' = IF listeners > 0 THEN events + 1 ELSE events

\* the handler answers: the headers are written, the body is piped or the
\* transport is ended
HandlerResolve(r) ==
  /\ pc = "awaiting_handler"
  /\ response' = r
  /\ written' = WriteHead(written, r.status,
                         DynamicHeaders(req.acceptEncoding, r.headers))
  /\ IF HasBody(r)
     THEN /\ compression' = Compression(Negotiated(req.acceptEncoding))
          /\ bodyLeft' = r.body
          /\ pc' = "streaming_body"
          /\ UNCHANGED <<transportEnded, events>>
     ELSE /\ transportEnded' = TRUE
          /\ Emit
          /\ pc' = "done"
          /\ UNCHANGED <<compression, bodyLeft>>
  /\ UNCHANGED <<pvars, svars, pipelineError, req, aborted, abortedAt,
                 controllers, staticSignal, dynSignal, served, fileLeft,
                 staticResult, thrown, handlerCalls, handlerBody, inTransform,
                 sent, transformEnded>>

\* the handler rejects: onRequest rejects with it
HandlerReject ==
  /\ pc = "awaiting_handler"
  /\ thrown' = "handler"
  /\ pc' = "failed"
  /\ UNCHANGED <<pvars, svars, pipelineError, req, aborted, abortedAt,
                 controllers, staticSignal, dynSignal, written, served,
                 fileLeft, staticResult, handlerCalls, handlerBody, response,
                 compression, bodyLeft, inTransform, sent, transformEnded,
                 transportEnded, events>>

\* writeReadableStreamToWritable reads a chunk and writes it to the transform
WriteChunk ==
  /\ pc = "streaming_body"
  /\ bodyLeft > 0
  /\ bodyLeft' = bodyLeft - 1
  /\ inTransform' = inTransform + 1
  /\ UNCHANGED <<pvars, svars, pipelineError, pc, req, aborted, abortedAt,
                 controllers, staticSignal, dynSignal, written, served,
                 fileLeft, staticResult, thrown, handlerCalls, handlerBody,
                 response, compression, sent, transformEnded, transportEnded,
                 events>>

\* the body is exhausted: the transform is ended, the await resolves and
\* onRequest runs to its end
BodyEnd ==
  /\ pc = "streaming_body"
  /\ bodyLeft = 0
  /\ transformEnded' = TRUE
  /\ Emit
  /\ pc' = "done"
  /\ UNCHANGED <<pvars, svars, pipelineError, req, aborted, abortedAt,
                 controllers, staticSignal, dynSignal, written, served,
                 fileLeft, staticResult, thrown, handlerCalls, handlerBody,
                 response, compression, bodyLeft, inTransform, sent,
                 transportEnded>>

\* reading the body fails: the transform is destroyed, onRequest rejects
BodyError ==
  /\ pc = "streaming_body"
  /\ bodyLeft > 0
  /\ thrown' = "body"
  /\ compression' = "destroyed"
  /\ inTransform' = 0
  /\ pc' = "failed"
  /\ UNCHANGED <<pvars, svars, pipelineError, req, aborted, abortedAt,
                 controllers, staticSignal, dynSignal, written, served,
                 fileLeft, staticResult, handlerCalls, handlerBody, response,
                 bodyLeft, sent, transformEnded, transportEnded, events>>

\* compression.pipe(serverResponse) moves one chunk into the transport
PipeChunk ==
  /\ inTransform > 0
  /\ ~aborted
  /\ inTransform' = inTransform - 1
  /\ sent' = sent + 1
  /\ UNCHANGED <<pvars, svars, pipelineError, pc, req, aborted, abortedAt,
                 controllers, staticSignal, dynSignal, written, served,
                 fileLeft, staticResult, thrown, handlerCalls, handlerBody,
                 response, compression, bodyLeft, transformEnded,
                 transportEnded, events>>

\* the transform has ended and is drained: the pipe ends the transport
PipeEnd ==
  /\ transformEnded
  /\ inTransform = 0
  /\ ~aborted
  /\ ~transportEnded
  /\ transportEnded' = TRUE
  /\ UNCHANGED <<pvars, svars, pipelineError, pc, req, aborted, abortedAt,
                 controllers, staticSignal, dynSignal, written, served,
                 fileLeft, staticResult, thrown, handlerCalls, handlerBody,
                 response, compression, bodyLeft, inTransform, sent,
                 transformEnded, events>>

\* ------------------------------------------------------------------------
\* buildDefaultStaticHandler and buildStaticFiles
\* ------------------------------------------------------------------------
\* a directory entry: a file, a sub-directory or something else
Entry(kind, name, file) == [kind |-> kind, name |-> name, file |-> file]

EntriesOf(d) ==
  {Entry("file", "", f) : f \in FilesOf(d)}
  \cup {Entry("dir", n, Logo) : n \in SubdirsOf(d)}
  \cup {Entry("other", n, Logo) : n \in OthersOf(d)}

\* fsp.opendir(pathname) resolves
OpenDir(d) ==
  /\ walk[d] = "opening"
  /\ walk' = [walk EXCEPT ![d] = "reading"]
  /\ remaining' = [remaining EXCEPT ![d] = EntriesOf(d)]
  /\ UNCHANGED <<pvars, xvars, staticMap, listeners, subdirs, staticHandler>>

\* fsp.opendir(pathname) rejects
OpenDirFails(d) ==
  /\ walk[d] = "opening"
  /\ walk' = [walk EXCEPT ![d] = "failed"]
  /\ UNCHANGED <<pvars, xvars, staticMap, listeners, remaining, subdirs,
                 staticHandler>>

\* the directory yields its next entry, in whatever order the disk gives
ReadEntry(d) ==
  /\ walk[d] = "reading"
  /\ \E e \in remaining[d] :
       /\ remaining' = [remaining EXCEPT ![d] = @ \ {e}]
       /\ subdirs' = IF e.kind = "dir"
                     THEN [subdirs EXCEPT ![d] = @ \cup {e.name}]
                     ELSE subdirs
       /\ staticMap' = IF e.kind = "file"
                       THEN (e.file :> AbsolutePath(e.file)) @@ staticMap
                       ELSE staticMap
  /\ UNCHANGED <<pvars, xvars, listeners, walk, staticHandler>>

\* reading the directory fails
ReadDirFails(d) ==
  /\ walk[d] = "reading"
  /\ walk' = [walk EXCEPT ![d] = "failed"]
  /\ UNCHANGED <<pvars, xvars, staticMap, listeners, remaining, subdirs,
                 staticHandler>>

\* the directory is exhausted: every sub-walk is started and runs up to its
\* own opendir, the call awaits Promise.all
StartSubWalks(d) ==
  /\ walk[d] = "reading"
  /\ remaining[d] = {}
  /\ walk' = [x \in Dirs |->
                IF x = d THEN "waiting"
                ELSE IF x \in subdirs[d] THEN "opening" ELSE walk[x]]
  /\ UNCHANGED <<pvars, xvars, staticMap, listeners, remaining, subdirs,
                 staticHandler>>

\* Promise.all settles and with it the call
SettleWalk(d) ==
  /\ walk[d] = "waiting"
  /\ LET all == PromiseAll({walk[x] : x \in subdirs[d]}) IN
       /\ all # "pending"
       /\ walk' = [walk EXCEPT
                     ![d] = IF all = "fulfilled" THEN "done" ELSE "failed"]
  /\ UNCHANGED <<pvars, xvars, staticMap, listeners, remaining, subdirs,
                 staticHandler>>

\* the root walk resolved: the handler closes over staticMap and is returned
HandOut ==
  /\ staticHandler = "pending"
  /\ walk[""] = "done"
  /\ staticHandler' = "returned"
  /\ UNCHANGED <<pvars, xvars, staticMap, listeners, walk, remaining,
                 subdirs>>

\* the root walk rejected: so does buildDefaultStaticHandler
BuildRejects ==
  /\ staticHandler = "pending"
  /\ walk[""] = "failed"
  /\ staticHandler' = "rejected"
  /\ UNCHANGED <<pvars, xvars, staticMap, listeners, walk, remaining,
                 subdirs>>

NextBuild ==
  \/ \E d \in Dirs : OpenDir(d)
  \/ \E d \in Dirs : OpenDirFails(d)
  \/ \E d \in Dirs : ReadEntry(d)
  \/ \E d \in Dirs : ReadDirFails(d)
  \/ \E d \in Dirs : StartSubWalks(d)
  \/ \E d \in Dirs : SettleWalk(d)
  \/ HandOut
  \/ BuildRejects

SpecBuild == InitBuild /\ [][NextBuild]_vars

Next ==
  \/ ReceiveHit
  \/ ReceiveMiss
  \/ ClientAbort
  \/ FileChunk
  \/ FileStreamed
  \/ FileAborted
  \/ \E code \in PipelineFailures : FileFailed(code)
  \/ \E r \in Responses : HandlerResolve(r)
  \/ HandlerReject
  \/ WriteChunk
  \/ BodyEnd
  \/ BodyError
  \/ PipeChunk
  \/ PipeEnd

NextParse == ParseCall

Spec == Init /\ [][Next]_vars

SpecParse == InitParse /\ [][NextParse]_vars

\* ------------------------------------------------------------------------
\* Properties of parseEncoding (checked under SpecParse)
\* ------------------------------------------------------------------------
\* C2: the sequence returned by parseEncoding is sorted by descending weight:
\* of two adjacent entries the earlier one's weight is at least the later's.
C2_SortedDescending ==
  pDone =>
    \A i \in 1..(Len(pResult) - 1) : pResult[i].weight >= pResult[i + 1].weight

\* the token has no ";q=" parameter, or one whose value is not a weight
Unweighted(tok) == ~tok.hasQ \/ WeightPrefixLen(tok.q) = 0

\* C3: every coding token without a ";q=" parameter, or with a malformed
\* quality value, is kept in the result with weight 1.
C3_UnweightedKeptWithOne ==
  pDone =>
    \A i \in DOMAIN pHeader :
      Unweighted(pHeader[i]) =>
        \E j \in DOMAIN pResult :
          pResult[j] = [encoding |-> pHeader[i].encoding, weight |-> 1000]

\* the spellings of weight 0
ZeroQTexts == { <<"0">>, <<"0", ".">>, <<"0", ".", "0", "0", "0">> }

ZeroWeighted(tok) == tok.hasQ /\ tok.q \in ZeroQTexts

\* C4: no entry of weight 0 appears in the result of parseEncoding: no entry
\* carries weight 0, and a coding has no more entries than it has tokens
\* whose weight is not spelled as 0.
C4_NoZeroWeight ==
  pDone =>
    /\ \A j \in DOMAIN pResult : pResult[j].weight # 0
    /\ \A c \in HeaderCodings :
         Cardinality({j \in DOMAIN pResult : pResult[j].encoding = c})
           <= Cardinality({i \in DOMAIN pHeader :
                             /\ pHeader[i].encoding = c
                             /\ ~ZeroWeighted(pHeader[i])})

\* a q=0 token next to an accepted one: only the accepted one is returned
C4_Witness ==
  /\ pDone
  /\ Len(pHeader) = 2
  /\ ZeroWeighted(pHeader[1])
  /\ pHeader[2] = Tok("br", <<"0", ".", "5">>)
  /\ pResult = <<[encoding |-> "br", weight |-> 500]>>

Listed(c) ==
  \E i \in 1..Len(preferredEncodingOrder) : preferredEncodingOrder[i] = c

\* C5: entries of equal weight whose codings are in the fixed preference list
\* appear in ascending order of their index in that list.
C5_TiesByPreference ==
  pDone =>
    \A i, j \in DOMAIN pResult :
      ( /\ i < j
        /\ pResult[i].weight = pResult[j].weight
        /\ Listed(pResult[i].encoding)
        /\ Listed(pResult[j].encoding) )
      => IndexOf(preferredEncodingOrder, pResult[i].encoding)
           <= IndexOf(preferredEncodingOrder, pResult[j].encoding)

\* "gzip;q=1, br;q=1" yields br before gzip
C5_Witness ==
  /\ pDone
  /\ pHeader = <<Tok("gzip", <<"1">>), Tok("br", <<"1">>)>>
  /\ pResult = << [encoding |-> "br", weight |-> 1000],
                  [encoding |-> "gzip", weight |-> 1000] >>

\* ------------------------------------------------------------------------
\* Properties of an exchange (checked under Spec)
\* ------------------------------------------------------------------------
ContentEncodingOf(w) == w.headers["content-encoding"]

StaticHit == pc # "idle" /\ req.path \in DOMAIN staticMap

\* C1: a static hit serves the precompressed sibling of the highest-weight
\* accepted coding that has an indexed sibling: with .br and .gz indexed,
\* "gzip" serves the .gz file with content-encoding gzip, and
\* "br;q=0.5, gzip;q=0.9" serves the .gz file as well.
C1_HighestWeightSibling ==
  (StaticHit /\ req.path = AppJs /\ written # <<>>) =>
    ( req.acceptEncoding \in
        { Hdr(<<Bare("gzip")>>),
          Hdr(<< Tok("br", <<"0", ".", "5">>),
                 Tok("gzip", <<"0", ".", "9">>) >>) }
      => /\ served = staticMap[WithExtension(AppJs, "gz")]
         /\ ContentEncodingOf(written[1]) = "gzip" )

\* C6: the content-encoding written for a dynamic response is the coding
\* negotiated from the request's accept-encoding header, whatever headers
\* the handler's response carries.
C6_NegotiatedOverrides ==
  response.status # 0 =>
    ContentEncodingOf(written[Len(written)]) = Negotiated(req.acceptEncoding)

\* C7: an exchange whose path is in the index, aborted or not, never invokes
\* the application handler and never writes response headers a second time.
C7_StaticHitStaysStatic ==
  StaticHit => handlerCalls = 0 /\ Len(written) <= 1

\* C8: when the signal trips while the file is streaming the read is aborted
\* and the static handler settles without throwing; any other failure of the
\* pipeline is rethrown to the caller.
C8_AbortSuppressedOthersRethrown ==
  /\ pipelineError = "ABORT_ERR" => staticSignal /\ staticResult = "undefined"
  /\ pipelineError \in PipelineFailures =>
       staticResult = "thrown" /\ thrown = pipelineError /\ pc = "failed"
  /\ staticResult = "thrown" => pipelineError \in PipelineFailures
  /\ (StaticHit /\ staticSignal) => staticResult \in {"pending", "undefined"}

\* the client left mid-stream and the static handler returned normally
C8_Witness ==
  /\ StaticHit
  /\ aborted
  /\ pipelineError = "ABORT_ERR"
  /\ staticResult = "undefined"
  /\ thrown = "none"

\* C9: the "response" event is emitted only once no body chunk is pending
\* between the body, the transform and the transport, or once the exchange
\* has aborted.
C9_EventAfterBody ==
  [][events' > events => (aborted \/ (bodyLeft' = 0 /\ inTransform' = 0))]_vars

\* C10: with a listener registered, an exchange that completes has emitted
\* exactly one "response" event.
C10_OneEventPerExchange ==
  (listeners > 0 /\ pc = "done") => events = 1

\* C11: a static hit without an accept-encoding header is served the base
\* file with content-encoding identity, whatever siblings are indexed.
C11_NoHeaderServesBase ==
  (StaticHit /\ written # <<>> /\ ~req.acceptEncoding.present) =>
    /\ served = AbsolutePath(req.path)
    /\ ContentEncodingOf(written[1]) = "identity"

\* no header, both siblings on disk, the base file goes out
C11_Witness ==
  /\ StaticHit
  /\ req.path = AppJs
  /\ ~req.acceptEncoding.present
  /\ {WithExtension(AppJs, "br"), WithExtension(AppJs, "gz")}
       \subseteq DOMAIN staticMap
  /\ served = AbsolutePath(AppJs)
  /\ pc = "done"

\* C12: a static response carries the immutable one-year cache-control under
\* the build's public path and the six-hour one elsewhere, whatever the
\* negotiated encoding and the variant served.
C12_CacheControlByPath ==
  (StaticHit /\ written # <<>>) =>
    written[1].headers["cache-control"] =
      IF req.path.dir = "build"
      THEN "public, max-age=31536000, immutable"
      ELSE "public, max-age=21600"

\* a precompressed variant outside the public path, with the six-hour value
C12_Witness ==
  /\ StaticHit
  /\ req.path = Favicon
  /\ served = AbsolutePath(WithExtension(Favicon, "gz"))
  /\ written[1].headers["cache-control"] = "public, max-age=21600"

\* C13: for GET and HEAD the Request handed to the application handler has
\* no body (the transport request stream is not wrapped, so never read); for
\* every other method the body is attached as a stream.
C13_BodyOnlyBeyondGetHead ==
  handlerCalls > 0 =>
    handlerBody = IF req.method = "GET" \/ req.method = "HEAD"
                  THEN "null" ELSE "stream"

\* a HEAD request reached the handler without a body
C13_Witness ==
  /\ handlerCalls = 1
  /\ req.method = "HEAD"
  /\ handlerBody = "null"
  /\ response.status = 200

\* C14: the index never changes once the static handler exists: handling a
\* request leaves every entry in place, a request for an indexed path is
\* never treated as a miss, and the file resolved on a hit is an indexed one.
C14_IndexImmutable ==
  /\ staticMap = BuiltStaticMap
  /\ (pc # "idle" /\ req.path \in DOMAIN BuiltStaticMap) =>
       staticResult # "false"
  /\ (StaticHit /\ written # <<>>) =>
       served \in {staticMap[k] : k \in DOMAIN staticMap}

\* a hit whose negotiation found no sibling fell back to the indexed base file
C14_Witness ==
  /\ StaticHit
  /\ req.path = Favicon
  /\ req.acceptEncoding = Hdr(<<Tok("br", <<"0", ".", "5">>)>>)
  /\ served = staticMap[Favicon]
  /\ pc = "done"

\* C15: within one exchange the status and headers are written before any
\* body chunk reaches the transport, on the static and on the dynamic path.
C15_HeadersBeforeBody ==
  [][sent' > sent => written # <<>>]_vars

\* a dynamic body chunk has reached the transport after the headers
C15_Witness ==
  /\ staticResult = "false"
  /\ Len(written) = 1
  /\ sent = 1

\* C16: when the handler's response has no body the transport is ended at
\* once, no body chunk is written for it and no transform is created.
C16_NoBodyEndsAtOnce ==
  (response.status # 0 /\ response.body = -1) =>
    /\ compression = "none"
    /\ transportEnded
    /\ bodyLeft = 0 /\ inTransform = 0
    /\ pc = "done"
    /\ staticResult = "false" => sent = 0

\* a body-less answer to a request that missed the index
C16_Witness ==
  /\ staticResult = "false"
  /\ response.status = 200
  /\ response.body = -1
  /\ transportEnded
  /\ pc = "done"

\* C17 (checked under SpecParse): among entries of equal weight a coding
\* absent from the fixed preference list comes after every listed coding.
C17_UnknownSortsLast ==
  pDone =>
    \A i, j \in DOMAIN pResult :
      ( /\ i < j
        /\ pResult[i].weight = pResult[j].weight
        /\ ~Listed(pResult[i].encoding) )
      => ~Listed(pResult[j].encoding)

HasSuffix(c) == c \in DOMAIN encodingExtensionMap

SiblingIndexed(p, c) ==
  HasSuffix(c) /\ WithExtension(p, encodingExtensionMap[c]) \in DOMAIN staticMap

\* C18: in the rank-order scan a coding with no known suffix resolves to the
\* request path itself and wins as the first hit: when it comes before every
\* coding whose sibling is indexed, the base file is served with
\* content-encoding identity.
C18_SuffixlessCodingWins ==
  (StaticHit /\ written # <<>>) =>
    LET encs == parseEncoding(AcceptEncoding(req.acceptEncoding)) IN
    \A k \in DOMAIN encs :
      ( /\ ~HasSuffix(encs[k].encoding)
        /\ \A j \in 1..(k - 1) : ~SiblingIndexed(req.path, encs[j].encoding) )
      => /\ served = staticMap[req.path]
         /\ ContentEncodingOf(written[1]) = "identity"

\* the transform has been destroyed, or has drained into an ended transport
TransformReleased ==
  \/ compression = "destroyed"
  \/ transformEnded /\ inTransform = 0 /\ transportEnded

\* C19: after a client disconnect during the streaming of a dynamic body the
\* exchange ends with the compression transform released.
C19_AbortReleasesTransform ==
  (abortedAt = "streaming_body" /\ pc \in {"done", "failed"}) =>
    TransformReleased

\* C20: an exchange creates exactly one AbortController, on a static hit as
\* on the way through the dynamic bridge.
C20_OneControllerPerExchange ==
  pc # "idle" => controllers = 1

\* ------------------------------------------------------------------------
\* Properties of the index walk (checked under SpecBuild)
\* ------------------------------------------------------------------------
\* C21: whatever the interleaving of the concurrent sub-walks, the static
\* handler is handed out only once every walk has finished, and the index it
\* closes over is then the one map with an entry per regular file, keyed by
\* the file's path relative to the root.
C21_CompleteIndexAtHandOut ==
  staticHandler = "returned" =>
    /\ \A d \in Dirs : walk[d] = "done"
    /\ DOMAIN staticMap = PublicFiles
    /\ \A f \in PublicFiles : staticMap[f] = [root |-> "public", rel |-> f]

\* the handler has been handed out after both sub-directories were walked
C21_Witness ==
  /\ staticHandler = "returned"
  /\ subdirs[""] = {"build", "img"}
  /\ walk["build"] = "done"
  /\ walk["img"] = "done"
  /\ Logo \in DOMAIN staticMap

\* C22: if opening or reading any directory fails, at the root or below,
\* buildDefaultStaticHandler rejects and never returns a handler.
C22_FailedWalkNoHandler ==
  /\ (\E d \in Dirs : walk[d] = "failed") => staticHandler # "returned"
  /\ staticHandler = "rejected" => walk[""] = "failed"

\* a sub-directory failed and the startup was rejected with a partial index
C22_Witness ==
  /\ walk["build"] = "failed"
  /\ walk[""] = "failed"
  /\ staticHandler = "rejected"
  /\ DOMAIN staticMap # PublicFiles

\* C23: for a dynamic response with a body, the content-encoding written is
\* the transform applied: br, gzip or deflate for the matching compressor,
\* identity for the pass-through.  Stated for the responses whose handler set
\* no content-encoding of its own.
C23_HeaderNamesTransform ==
  (/\ compression \in {"br", "gzip", "deflate", "PassThrough"}
   /\ "content-encoding" \notin DOMAIN response.headers) =>
    ContentEncodingOf(written[Len(written)]) =
      IF compression = "PassThrough" THEN "identity" ELSE compression

\* the coding the bytes of an indexed file are in
FileCoding(file) ==
  IF ExtName(file.rel) = "br" THEN "br"
  ELSE IF ExtName(file.rel) = "gz" THEN "gzip" ELSE "identity"

\* C24: the content-encoding of a static response names the real encoding
\* of the file served: br for .br, gzip for .gz, identity for the base file.
C24_HeaderNamesFileCoding ==
  (StaticHit /\ written # <<>>) =>
    ContentEncodingOf(written[1]) = FileCoding(served)

\* C25 (checked under SpecParse): every entry returned by parseEncoding has
\* a weight in (0, 1], that is 1..1000 thousandths.
C25_WeightAtMostOne ==
  pDone => \A j \in DOMAIN pResult : pResult[j].weight \in 1..1000

====
